---- MODULE Spec2Model ----
(***************************************************************************)
(* photutils/background/core.py: the SigmaClip mixin and the background    *)
(* and background-rms estimator classes built on it.                       *)
(*                                                                         *)
(* Numbers.  The samples of the model are arrays of small integers.  A    *)
(* mean, a median and every linear combination of them is kept as an exact *)
(* fraction <<num, den>> (den > 0); a standard deviation is kept by its    *)
(* square, the variance.  Comparisons against center -/+ sigma * std are   *)
(* decided exactly on the squares, so the model is the real-number         *)
(* semantics of the numpy expressions.                                     *)
(***************************************************************************)
EXTENDS Integers, Sequences, FiniteSets, TLC

\* Python values.  None is the empty tuple and an optional integer v that
\* is set is <<v>>; np.ma.masked and a raised ValueError are tagged tuples.
None == <<>>
masked == <<"masked">>
ValueError == <<"ValueError">>

---------------------------------------------------------------------------
(* Bounds of the model *)

\* element values are 0..MaxVal
MaxVal == 2
\* an integer iters is 0..MaxIters
MaxIters == 2
\* the one-row samples given to SExtractorBackground have SELen elements
SELen == 6

\* the samples are 2 x 2 arrays
Shapes == {<<2, 2>>}
Values == 0..MaxVal
Axes == {None, <<0>>, <<1>>}
Sigmas == {-1, 1}
SigmaSides == {None, <<0>>}
Iters == {None} \cup {<<k>> : k \in 0..MaxIters}

---------------------------------------------------------------------------
(* Exact arithmetic *)

Abs(x) == IF x < 0 THEN -x ELSE x
Sgn(x) == IF x < 0 THEN -1 ELSE IF x > 0 THEN 1 ELSE 0

RECURSIVE SumBetween(_, _, _, _)
\* sum of f[i] over the index set I, all f[i] being in lo..hi: by halves
\* of the range of values
SumBetween(f, I, lo, hi) ==
    IF I = {} THEN 0
    ELSE IF lo = hi THEN lo * Cardinality(I)
    ELSE LET mid == (lo + hi) \div 2
         IN  SumBetween(f, {j \in I : f[j] <= mid}, lo, mid)
                 + SumBetween(f, {j \in I : f[j] > mid}, mid + 1, hi)

\* sum of f[i] over the index set I
SumOver(f, I) ==
    IF I = {} THEN 0
    ELSE LET vals == {f[j] : j \in I}
             lo == CHOOSE v \in vals : \A w \in vals : v <= w
             hi == CHOOSE v \in vals : \A w \in vals : w <= v
         IN  SumBetween(f, I, lo, hi)

RECURSIVE GCD(_, _)
\* the greatest common divisor of a >= 0 and b >= 0
GCD(a, b) == IF b = 0 THEN a ELSE GCD(b, a % b)

\* fractions <<num, den>>, den > 0; differences, products and quotients
\* are in lowest terms, which keeps the numbers small
RatNorm(a) ==
    LET g == GCD(Abs(a[1]), a[2])
    IN  <<a[1] \div g, a[2] \div g>>
RatEq(a, b) == a[1] * b[2] = b[1] * a[2]
RatLess(a, b) == a[1] * b[2] < b[1] * a[2]
RatSub(a, b) == RatNorm(<<a[1] * b[2] - b[1] * a[2], a[2] * b[2]>>)
RatAbs(a) == <<Abs(a[1]), a[2]>>
RatMul(a, b) ==
    LET x == RatNorm(<<a[1], b[2]>>)
        y == RatNorm(<<b[1], a[2]>>)
    IN  <<x[1] * y[1], x[2] * y[2]>>
RatScale(k, a) == <<k * a[1], a[2]>>
\* a / b for b > 0
RatDiv(a, b) == RatMul(a, <<b[2], b[1]>>)

\* L > R * sqrt(V), for V >= 0, decided on the squares
GtSqrt(L, R, V) ==
    LET sgnT == IF V = 0 THEN 0 ELSE Sgn(R)
    IN  IF L > 0 THEN sgnT <= 0 \/ L * L > R * R * V
        ELSE IF L = 0 THEN sgnT < 0
        ELSE sgnT < 0 /\ L * L < R * R * V

---------------------------------------------------------------------------
(* Arrays.  A masked array is a record [data, mask] of two functions on   *)
(* the index set (1..rows) \X (1..cols).                                  *)

IdxOf(shape) == (1..shape[1]) \X (1..shape[2])
Idx(a) == DOMAIN a.data

\* index i comes before index j in row-major order
Before(i, j) == i[1] < j[1] \/ (i[1] = j[1] /\ i[2] < j[2])

\* The samples tried: the arrays of a shape whose data is nondecreasing in
\* row-major order, under every mask.  (Every reduction of the module is
\* symmetric in the elements of a slice; the masks and the three axes
\* vary what a slice holds.)
SortedData(sh, values) ==
    {d \in [IdxOf(sh) -> values] :
        \A p, q \in IdxOf(sh) : Before(p, q) => d[p] <= d[q]}

Arrays(shapes, values) ==
    UNION {[data : SortedData(sh, values), mask : [IdxOf(sh) -> BOOLEAN]] :
           sh \in shapes}

\* the arrays that come with no mask (plain ndarrays)
PlainArrays(shapes, values) ==
    UNION {[data : SortedData(sh, values), mask : [IdxOf(sh) -> {FALSE}]] :
           sh \in shapes}

NoArray == [data |-> <<>>, mask |-> <<>>]

\* a reduction yields one value per slice along the axis; with axis = None
\* the only slice is the whole array
Keys(a, ax) ==
    IF ax = None THEN {1}
    ELSE IF ax = <<1>> THEN {i[1] : i \in Idx(a)}
    ELSE {i[2] : i \in Idx(a)}

Slice(a, ax, k) ==
    IF ax = None THEN Idx(a)
    ELSE IF ax = <<1>> THEN {i \in Idx(a) : i[1] = k}
    ELSE {i \in Idx(a) : i[2] = k}

\* the unmasked elements of slice k under the mask m
Unmasked(a, m, ax, k) == {i \in Slice(a, ax, k) : ~m[i]}

\* MaskedArray.count()
CountAll(a, m) == Cardinality({i \in Idx(a) : ~m[i]})

MaskSet(m) == {i \in DOMAIN m : m[i]}

---------------------------------------------------------------------------
(* The masked-array reductions of numpy the module calls, on one slice:   *)
(* d is the data, U the set of unmasked indices of the slice.             *)

\* the k-th smallest of the unmasked values, 1 <= k <= Cardinality(U)
KthSmallest(d, U, k) ==
    CHOOSE v \in {d[i] : i \in U} :
        /\ Cardinality({i \in U : d[i] < v}) < k
        /\ k <= Cardinality({i \in U : d[i] <= v})

\* the mutant of MaMedian: the upper of the two middle values
MaMedianUpper(d, U) ==
    IF U = {} THEN masked
    ELSE <<KthSmallest(d, U, (Cardinality(U) \div 2) + 1), 1>>

\* np.ma.median: the mean of the two middle values (the middle one twice
\* for an odd count); masked for a slice with no unmasked element
MaMedian(d, U) ==
    IF U = {} THEN masked
    ELSE LET n == Cardinality(U)
             h == n \div 2
             high == KthSmallest(d, U, h + 1)
             low == IF n % 2 = 1 THEN high ELSE KthSmallest(d, U, h)
         IN  <<low + high, 2>>

\* np.ma.mean
MaMean(d, U) ==
    IF U = {} THEN masked ELSE <<SumOver(d, U), Cardinality(U)>>

\* np.ma.var, the population variance (n * sum x^2 - (sum x)^2) / n^2;
\* np.ma.std and np.std are its square root
MaVar(d, U) ==
    IF U = {} THEN masked
    ELSE LET n == Cardinality(U)
             s == SumOver(d, U)
             q == SumOver([i \in DOMAIN d |-> d[i] * d[i]], U)
         IN  <<n * q - s * s, n * n>>

---------------------------------------------------------------------------
(* astropy.stats.sigma_clip as SigmaClip.sigma_clip calls it              *)

\* sigma_upper never looked at
UpperIsSigma(sg, up) == sg

\* the clipping limits in effect: sigma_lower / sigma_upper left None take
\* the value of sigma
Lower(sg, lo) == IF lo = None THEN sg ELSE lo[1]
Upper(sg, up) == IF up = None THEN sg ELSE up[1]

\* astropy >= 1.1, cenfunc=np.ma.median, stdfunc=np.std: of the unmasked
\* elements U of a slice, those rejected are the x with
\*   x > median + sigma_upper * std   or   x < median - sigma_lower * std.
\* With median = m[1]/2 and std = sqrt(v[1])/n this is
\*   (2x - m[1]) * n > 2 * sigma_upper * sqrt(v[1]), and its mirror image.
Rejected(d, U, sg, lo, up) ==
    IF U = {} THEN {}
    ELSE LET m == MaMedian(d, U)
             v == MaVar(d, U)
             n == Cardinality(U)
         IN  {j \in U :
                 \/ GtSqrt((2 * d[j] - m[1]) * n, 2 * Upper(sg, up), v[1])
                 \/ GtSqrt((m[1] - 2 * d[j]) * n, 2 * Lower(sg, lo), v[1])}

\* astropy < 1.1, sig=sigma, cenfunc=np.ma.median, varfunc=np.ma.var: the
\* elements rejected are the x with (x - median)^2 > var * sig^2;
\* sigma_lower and sigma_upper are not passed on
RejectedLegacy(d, U, sg) ==
    IF U = {} THEN {}
    ELSE LET m == MaMedian(d, U)
             v == MaVar(d, U)
             n == Cardinality(U)
         IN  {j \in U :
                 (2 * d[j] - m[1]) * (2 * d[j] - m[1]) * n * n
                     > 4 * v[1] * sg * sg}

\* the elements one iteration rejects, slice by slice, given the mask
\* that says which elements are taken for center and spread
RejectedAll(a, m, ax, legacy, sg, lo, up) ==
    UNION {IF legacy THEN RejectedLegacy(a.data, Unmasked(a, m, ax, k), sg)
           ELSE Rejected(a.data, Unmasked(a, m, ax, k), sg, lo, up) :
           k \in Keys(a, ax)}

\* the iteration with the rejected elements assigned to the mask, not
\* or-ed into it
perform_clip_assign(a, m, ax, legacy, sg, lo, up) ==
    LET rej == RejectedAll(a, m, ax, legacy, sg, lo, up)
    IN  [j \in Idx(a) |-> j \in rej]

\* the iteration with center and spread taken over the caller's array,
\* not over filtered_data
perform_clip_input(a, m, ax, legacy, sg, lo, up) ==
    LET rej == RejectedAll(a, a.mask, ax, legacy, sg, lo, up)
    IN  [j \in Idx(a) |-> m[j] \/ j \in rej]

\* one clipping iteration on the filtered copy: a is the caller's array,
\* m the mask of filtered_data; center and spread are taken over the
\* elements currently unmasked in each slice, and the rejected elements
\* are or-ed into the mask
perform_clip(a, m, ax, legacy, sg, lo, up) ==
    LET rej == RejectedAll(a, m, ax, legacy, sg, lo, up)
    IN  [j \in Idx(a) |-> m[j] \/ j \in rej]

\* the for loop run once too often
LoopContinuesOnceMore(its, i, cnt, lr) ==
    IF its = None THEN cnt # lr ELSE i <= its[1]

\* the loop condition: "for i in range(iters)", or for iters = None
\* "while filtered_data.count() != lastrej"
LoopContinues(its, i, cnt, lr) ==
    IF its = None THEN cnt # lr ELSE i < its[1]

\* sigclip never looked at
SkipsClippingNever(sc) == FALSE

\* "if not self.sigclip: return data"
SkipsClipping(sc) == ~sc

---------------------------------------------------------------------------
(* The reductions of the estimator classes, on one slice: d is the data   *)
(* of the clipped array and U the set of its unmasked indices.            *)

\* ModeEstimatorBackground: median_factor * median - mean_factor * mean
ModeValue(mdf, mnf, d, U) ==
    IF U = {} THEN masked
    ELSE RatSub(RatScale(mdf, MaMedian(d, U)), RatScale(mnf, MaMean(d, U)))

\* the comparison taken as "<= 0.3"
BelowOrAtThreshold(mean, median, var) ==
    LET diff == RatAbs(RatSub(mean, median))
    IN  ~RatLess(<<9, 100>>, RatDiv(RatMul(diff, diff), var))

\* "(np.abs(_mean - _median) / _std) < 0.3", decided on the squares:
\* (_mean - _median)^2 / var < 9/100
BelowThreshold(mean, median, var) ==
    LET diff == RatAbs(RatSub(mean, median))
    IN  RatLess(RatDiv(RatMul(diff, diff), var), <<9, 100>>)

\* SExtractorBackground, once the median has passed .item().  For a slice
\* with no unmasked element .item() gives the 0.0 under np.ma.masked, and
\* the two tests on masked values are false, so the 0.0 is returned.
SExtractorValue(d, U) ==
    IF U = {} THEN <<0, 1>>
    ELSE LET _median == MaMedian(d, U)
             _mean == MaMean(d, U)
             _var == MaVar(d, U)
         IN  IF _var[1] = 0 THEN _mean
             ELSE IF BelowThreshold(_mean, _median, _var)
                  THEN RatSub(RatMul(<<5, 2>>, _median), RatMul(<<3, 2>>, _mean))
                  ELSE _median

\* np.ma.std: the square root of the fraction <<num, den>> it carries
StdValue(d, U) ==
    IF U = {} THEN masked
    ELSE LET v == MaVar(d, U) IN <<"sqrt", v[1], v[2]>>

\* astropy.stats.mad_std: 1.4826 times the median of |x - median(x)|, which
\* is the fraction <<num, den>> it carries
MADStdValue(d, U) ==
    IF U = {} THEN masked
    ELSE LET m == MaMedian(d, U)
             dev == [j \in DOMAIN d |-> Abs(2 * d[j] - m[1])]
             mad == MaMedian(dev, U)
         IN  <<"mad_std", mad[1], 2 * mad[2]>>

\* photutils.extern.biweight_stats: biweight_location and
\* biweight_midvariance are kept as terms over what they are given: the
\* tuning constant c, the center (M, or the median of the data when M is
\* None) and the unmasked values with their multiplicities
BiweightValue(name, cc, mm, d, U) ==
    <<name, cc,
      IF mm = None THEN MaMedian(d, U) ELSE <<mm[1], 1>>,
      {<<v, Cardinality({j \in U : d[j] = v})>> : v \in {d[j] : j \in U}}>>

---------------------------------------------------------------------------
(* The classes *)

ValueClasses == {"MeanBackground", "MedianBackground",
                 "ModeEstimatorBackground", "MMMBackground",
                 "SExtractorBackground", "BiweightLocationBackground"}
RMSClasses == {"StdBackgroundRMS", "MADStdBackgroundRMS",
               "BiweightMidvarianceBackgroundRMS"}
EstimatorClasses == ValueClasses \cup RMSClasses
Classes == {"SigmaClip"} \cup EstimatorClasses

\* the estimator-specific constructor arguments tried, as
\* <<median_factor, mean_factor, c, M>>; a class without the attribute
\* has None
ModeFactors == {<<2, 1>>}
BiweightArgs == {<<-1, None>>, <<6, <<1>>>>}

EstimatorArgs(C) ==
    IF C = "ModeEstimatorBackground"
    THEN {<<<<f[1]>>, <<f[2]>>, None, None>> : f \in ModeFactors}
    ELSE IF C = "MMMBackground"
    THEN {<<<<3>>, <<2>>, None, None>>}
    ELSE IF C \in {"BiweightLocationBackground", "BiweightMidvarianceBackgroundRMS"}
    THEN {<<None, None, <<b[1]>>, b[2]>> : b \in BiweightArgs}
    ELSE {<<None, None, None, None>>}

VARIABLES
    ASTROPY_LT_1P1,  \* the module-level flag set at import
    cls,             \* the class of the object constructed
    sigclip, sigma, sigma_lower, sigma_upper, iters,   \* SigmaClip fields
    median_factor, mean_factor,                        \* mode estimators
    c, M,                                              \* biweight estimators
    method,          \* the method called
    outer,           \* the axis given to __call__, when the call came through it
    data,            \* the caller's array of the call in progress
    axis,            \* its axis argument
    filtered_data,   \* the array sigma_clip works on and returns
    i,               \* iterations of the clipping loop made so far
    lastrej,         \* the loop's lastrej (iters = None)
    prevmask,        \* the mask before the latest iteration
    again,           \* whether data is the output of the previous call
    origmask,        \* the mask of the array the caller first supplied
    result,          \* what the estimation call returned
    pc

config == <<ASTROPY_LT_1P1, cls, sigclip, sigma, sigma_lower, sigma_upper,
            iters, median_factor, mean_factor, c, M>>

vars == <<config, method, outer, data, axis, filtered_data, i, lastrej, prevmask,
          again, origmask, result, pc>>

\* The state after construction.  SigmaClip.__init__ stores its arguments
\* as given, and so do the constructors of the estimators; MMMBackground
\* sets the two factors itself.
Construct(classes, sigmas, lowers, uppers, iterset) ==
    /\ cls \in classes
    /\ sigclip \in BOOLEAN
    /\ sigma \in sigmas
    /\ sigma_lower \in lowers
    /\ sigma_upper \in uppers
    /\ iters \in iterset
    /\ \E args \in EstimatorArgs(cls) :
          /\ median_factor = args[1] /\ mean_factor = args[2]
          /\ c = args[3] /\ M = args[4]

NoCall ==
    /\ method = None
    /\ outer = None
    /\ data = NoArray /\ axis = None /\ filtered_data = NoArray
    /\ i = 0 /\ lastrej = 0 /\ prevmask = <<>> /\ again = "no"
    /\ origmask = <<>>
    /\ result = None
    /\ pc = "idle"

\* the mutant of CallAxis: __call__ forgets the axis
CallAxisDropped(ax) == None

\* the axis __call__ passes on: calc_background(data, axis=axis)
CallAxis(ax) == ax

\* the mutant of Aliased: the clipping works on the caller's array
AliasedAlways(sc) == TRUE

\* whether the array sigma_clip works on and returns is the caller's
\* array itself: it is when clipping is off ("return data"); otherwise
\* astropy's sigma_clip works on np.ma.array(data, copy=True), copy being
\* left at its default
Aliased(sc) == SkipsClipping(sc)

\* entry of self.sigma_clip(a, axis=ax)
Enter(a, ax) ==
    /\ data' = a /\ axis' = ax
    /\ i' = 0
    /\ prevmask' = a.mask
    /\ filtered_data' = a
    /\ IF SkipsClipping(sigclip)
       THEN /\ lastrej' = 0
            /\ pc' = "returned"
       ELSE /\ lastrej' = IF iters = None THEN CountAll(a, a.mask) + 1 ELSE 0
            /\ pc' = "loop"
    /\ UNCHANGED <<config, result>>

\* obj.sigma_clip(a, axis=ax) on a fresh array
SigmaClipCall(arrays) ==
    /\ pc = "idle"
    /\ \E a \in arrays, ax \in Axes : Enter(a, ax)
    /\ method' = "sigma_clip"
    /\ outer' = None
    /\ again' = "no"
    /\ origmask' = data'.mask

\* obj.calc_background(a, axis=ax) or obj.calc_background_rms(a, axis=ax),
\* which first calls self.sigma_clip(a, axis=ax)
CalcCall(arrays) ==
    /\ pc = "idle"
    /\ cls \in EstimatorClasses
    /\ \E a \in arrays, ax \in Axes : Enter(a, ax)
    /\ method' = IF cls \in ValueClasses THEN "calc_background"
                 ELSE "calc_background_rms"
    /\ outer' = None
    /\ again' = "no"
    /\ origmask' = data'.mask

\* obj(a, axis=ax): __call__ hands its arguments to calc_background or to
\* calc_background_rms
DirectCall(arrays) ==
    /\ pc = "idle"
    /\ cls \in EstimatorClasses
    /\ \E a \in arrays, ax \in Axes :
          /\ Enter(a, CallAxis(ax))
          /\ outer' = <<ax>>
    /\ method' = "__call__"
    /\ again' = "no"
    /\ origmask' = data'.mask

\* the same call once more, on the same sample, after the first returned
CalcAgain ==
    /\ pc = "done"
    /\ again = "no"
    /\ again' = "repeat"
    /\ Enter(data, axis)
    /\ UNCHANGED <<method, outer, origmask>>

\* one iteration of the clipping loop
PerformClip ==
    /\ pc = "loop"
    /\ LoopContinues(iters, i, CountAll(filtered_data, filtered_data.mask), lastrej)
    /\ lastrej' = IF iters = None
                  THEN CountAll(filtered_data, filtered_data.mask) ELSE lastrej
    /\ prevmask' = filtered_data.mask
    /\ filtered_data' =
          [filtered_data EXCEPT !.mask =
              perform_clip(data, filtered_data.mask, axis, ASTROPY_LT_1P1,
                           sigma, sigma_lower, sigma_upper)]
    /\ i' = i + 1
    /\ data' = IF Aliased(sigclip) THEN filtered_data' ELSE data
    /\ UNCHANGED <<config, method, outer, axis, again, origmask, result, pc>>

\* the loop ends and sigma_clip returns filtered_data
SigmaClipReturn ==
    /\ pc = "loop"
    /\ ~LoopContinues(iters, i, CountAll(filtered_data, filtered_data.mask), lastrej)
    /\ pc' = "returned"
    /\ UNCHANGED <<config, method, outer, data, axis, filtered_data, i,
                   lastrej, prevmask, again, origmask, result>>

\* the last call converged: it made an iteration and the last one
\* masked nothing
Converged == sigclip /\ i > 0 /\ prevmask = filtered_data.mask

\* obj.sigma_clip(out, axis) on the array a converged call returned
SigmaClipAgain ==
    /\ pc = "returned"
    /\ method = "sigma_clip"
    /\ again = "no"
    /\ Converged
    /\ again' = "converged"
    /\ Enter(filtered_data, axis)
    /\ UNCHANGED <<method, outer, origmask>>

\* the value an estimator class computes from one slice of the clipped
\* array
SliceValue(C, mdf, mnf, cc, mm, d, U) ==
    CASE C = "MeanBackground" -> MaMean(d, U)
      [] C = "MedianBackground" -> MaMedian(d, U)
      [] C \in {"ModeEstimatorBackground", "MMMBackground"} ->
            ModeValue(mdf[1], mnf[1], d, U)
      [] C = "SExtractorBackground" -> SExtractorValue(d, U)
      [] C = "BiweightLocationBackground" ->
            BiweightValue("biweight_location", cc[1], mm, d, U)
      [] C = "StdBackgroundRMS" -> StdValue(d, U)
      [] C = "MADStdBackgroundRMS" -> MADStdValue(d, U)
      [] C = "BiweightMidvarianceBackgroundRMS" ->
            BiweightValue("biweight_midvariance", cc[1], mm, d, U)

\* SExtractorBackground.calc_background applies .item() to the median and
\* tests "_std == 0": both raise ValueError on an array of more than one
\* element, that is with an axis along which there are several slices
Raises(C, a, ax) ==
    C = "SExtractorBackground" /\ Cardinality(Keys(a, ax)) # 1

\* what calc_background / calc_background_rms makes of the clipped array
\* f: a ValueError, or one value per slice
Estimate(C, mdf, mnf, cc, mm, f, ax) ==
    IF Raises(C, f, ax) THEN ValueError
    ELSE <<"value", [k \in Keys(f, ax) |->
                       SliceValue(C, mdf, mnf, cc, mm, f.data,
                                  Unmasked(f, f.mask, ax, k))]>>

\* the reduction of the clipped array that ends the estimation call
Reduce ==
    /\ pc = "returned"
    /\ method \in {"calc_background", "calc_background_rms", "__call__"}
    /\ result' = Estimate(cls, median_factor, mean_factor, c, M,
                          filtered_data, axis)
    /\ pc' = "done"
    /\ UNCHANGED <<config, method, outer, data, axis, filtered_data, i,
                   lastrej, prevmask, again, origmask>>

---------------------------------------------------------------------------
(* Specifications *)

\* the estimator classes
EstSigmas == {0, 1}
EstIters == {None, <<1>>}

Init ==
    /\ ASTROPY_LT_1P1 \in BOOLEAN
    /\ Construct(EstimatorClasses, EstSigmas, {None}, {None}, EstIters)
    /\ NoCall

Next ==
    \/ CalcCall(Arrays(Shapes, Values))
    \/ DirectCall(Arrays(Shapes, Values))
    \/ PerformClip
    \/ SigmaClipReturn
    \/ Reduce
    \/ CalcAgain

Spec == Init /\ [][Next]_vars

\* the SigmaClip class by itself
InitClip ==
    /\ ASTROPY_LT_1P1 \in BOOLEAN
    /\ Construct({"SigmaClip"}, Sigmas, SigmaSides, SigmaSides, Iters)
    /\ NoCall

NextClip ==
    \/ SigmaClipCall(Arrays(Shapes, Values))
    \/ PerformClip
    \/ SigmaClipReturn
    \/ SigmaClipAgain

SpecClip == InitClip /\ [][NextClip]_vars

\* SExtractorBackground on one-row plain arrays: the values 0, 5, 14 put
\* |mean - median| / std below, above and exactly at 0.3
\* (0, 0, 0, 5, 5, 14 has mean 4, median 2.5 and std 5)
SEValues == {0, 5, 14}
SESigmas == {1, 3}
SEIters == {<<5>>}

InitSExtractor ==
    /\ ASTROPY_LT_1P1 \in BOOLEAN
    /\ Construct({"SExtractorBackground"}, SESigmas, {None}, {None}, SEIters)
    /\ NoCall

NextSExtractor ==
    \/ CalcCall(PlainArrays({<<1, SELen>>}, SEValues))
    \/ PerformClip
    \/ SigmaClipReturn
    \/ Reduce

SpecSExtractor == InitSExtractor /\ [][NextSExtractor]_vars

\* the sample of the docstrings, np.arange(100), with the default sigma
\* and iters of SigmaClip.__init__; beside it the same sample with its
\* last element made an outlier
RangeLen == 100
DefaultSigma == 3
DefaultIters == 5

Range(n) ==
    [data |-> [j \in IdxOf(<<1, n>>) |-> j[2] - 1],
     mask |-> [j \in IdxOf(<<1, n>>) |-> FALSE]]

RangeWithOutlier(n) ==
    [Range(n) EXCEPT !.data[<<1, n>>] = 2 * n]

RangeSamples == {Range(RangeLen), RangeWithOutlier(RangeLen)}

InitRange ==
    /\ ASTROPY_LT_1P1 \in BOOLEAN
    /\ Construct(EstimatorClasses, {DefaultSigma}, {None}, {None},
                 {<<DefaultIters>>})
    /\ NoCall

NextRange ==
    \/ CalcCall(RangeSamples)
    \/ DirectCall(RangeSamples)
    \/ PerformClip
    \/ SigmaClipReturn
    \/ Reduce

SpecRange == InitRange /\ [][NextRange]_vars

---------------------------------------------------------------------------
(* Claims *)

\* the elements of slice k left unmasked in the array sigma_clip returned
ClippedU(k) == Unmasked(filtered_data, filtered_data.mask, axis, k)

\* sum, sum of squares and count of the clipped slice k, and twice its
\* median
SumU(k) == SumOver(filtered_data.data, ClippedU(k))
SumSqU(k) == SumOver([j \in Idx(filtered_data) |->
                         filtered_data.data[j] * filtered_data.data[j]],
                     ClippedU(k))
NU(k) == Cardinality(ClippedU(k))
Median2U(k) == MaMedian(filtered_data.data, ClippedU(k))[1]
\* n^2 times the variance of the clipped slice k
VarNumU(k) == NU(k) * SumSqU(k) - SumU(k) * SumU(k)
\* 2n * (mean - median) of the clipped slice k
SkewU(k) == 2 * SumU(k) - NU(k) * Median2U(k)

---------------------------------------------------------------------------
(* Claims on the clipping loop.  An iteration has been made when i > 0;   *)
(* prevmask is then the mask it started from.                             *)

\* the elements of slice k that were unmasked before the latest iteration
PrevU(k) == Unmasked(data, prevmask, axis, k)

\* x > center + t * spread, for a slice of n elements with median m/2 and
\* variance V/n^2 (spread = sqrt(V)/n): that is n(2x - m) > 2t sqrt(V)
Above(n, m, V, x, t) ==
    LET lhs == n * (2 * x - m)
    IN  IF t >= 0 THEN lhs > 0 /\ lhs * lhs > 4 * t * t * V
        ELSE (lhs >= 0 /\ ~(lhs = 0 /\ V = 0)) \/ lhs * lhs < 4 * t * t * V

\* x < center - t * spread: the mirror image
Below(n, m, V, x, t) == Above(n, -m, V, -x, t)

\* the latest iteration masked exactly the unmasked elements outside
\* [center - lo * spread, center + up * spread], center and spread being
\* the median and the standard deviation of the elements of the slice
\* that were unmasked before it
MaskedExactly(lo, up) ==
    \A k \in Keys(data, axis) :
        LET U == PrevU(k)
            n == Cardinality(U)
            m == MaMedian(data.data, U)[1]
            V == MaVar(data.data, U)[1]
        IN  \A j \in Slice(data, axis, k) :
                filtered_data.mask[j] <=>
                    \/ prevmask[j]
                    \/ Below(n, m, V, data.data[j], lo)
                    \/ Above(n, m, V, data.data[j], up)

AfterIteration == pc \in {"loop", "returned"} /\ sigclip /\ i > 0

\* C2 as stated: every iteration masks exactly the currently-unmasked
\* elements x with x < center - sigma_lower*spread or
\* x > center + sigma_upper*spread, an unset sigma_lower / sigma_upper
\* being sigma.
C2_AsStated ==
    AfterIteration =>
        MaskedExactly(IF sigma_lower = None THEN sigma ELSE sigma_lower[1],
                      IF sigma_upper = None THEN sigma ELSE sigma_upper[1])

\* C2 amended: with astropy >= 1.1 (ASTROPY_LT_1P1 false) every iteration
\* masks exactly the currently-unmasked elements x with
\* x < center - sigma_lower*spread or x > center + sigma_upper*spread, an
\* unset sigma_lower / sigma_upper being sigma; with astropy < 1.1
\* sigma_lower and sigma_upper are ignored and the elements masked are
\* those with |x - center| > |sigma| * spread.
C2_ThresholdRule ==
    AfterIteration =>
        IF ASTROPY_LT_1P1
        THEN MaskedExactly(Abs(sigma), Abs(sigma))
        ELSE MaskedExactly(IF sigma_lower = None THEN sigma ELSE sigma_lower[1],
                           IF sigma_upper = None THEN sigma ELSE sigma_upper[1])

\* C2 witness: with astropy >= 1.1, sigma_upper set and sigma_lower not, an
\* iteration has masked an element below center - sigma*spread and an
\* element above center + sigma_upper*spread that is not above
\* center + sigma*spread
C2_Witness ==
    /\ AfterIteration /\ ~ASTROPY_LT_1P1
    /\ sigma_upper # None /\ sigma_lower = None
    /\ \E k \in Keys(data, axis) :
          LET U == PrevU(k)
              n == Cardinality(U)
              m == MaMedian(data.data, U)[1]
              V == MaVar(data.data, U)[1]
          IN  \E j, l \in U :
                 /\ filtered_data.mask[j]
                 /\ Below(n, m, V, data.data[j], sigma)
                 /\ filtered_data.mask[l]
                 /\ Above(n, m, V, data.data[l], sigma_upper[1])
                 /\ ~Above(n, m, V, data.data[l], sigma)

RECURSIVE ClipUntil(_, _)
\* the mask the claimed loop leaves: iterate from mask m, stopping at the
\* first iteration that masks nothing or after k iterations
ClipUntil(m, k) ==
    IF k = 0 THEN m
    ELSE LET n == perform_clip(data, m, axis, ASTROPY_LT_1P1, sigma,
                               sigma_lower, sigma_upper)
         IN  IF n = m THEN m ELSE ClipUntil(n, k - 1)

\* more iterations than any sample of the model can take to converge
Unbounded == Cardinality(Idx(data)) + 1

\* the fixed point reached with unbounded iterations
FixedPoint == ClipUntil(data.mask, Unbounded)

C5_DisabledIsIdentity ==
    (pc = "returned" /\ ~sigclip) => (filtered_data = data /\ i = 0)

\* C5 witness: sigma_clip has returned with sigclip false for a sample of
\* which one iteration would have masked an element
C5_Witness ==
    /\ pc = "returned" /\ ~sigclip
    /\ perform_clip(data, data.mask, axis, ASTROPY_LT_1P1, sigma,
                    sigma_lower, sigma_upper) # data.mask

\* C6: the masked set after k iterations contains the caller's mask, is
\* contained in the masked set after k + 1 iterations and in the fixed
\* point reached with unbounded iterations.
C6_MaskMonotone ==
    (pc \in {"loop", "returned"}) =>
        LET fixed == MaskSet(FixedPoint)
        IN  /\ MaskSet(data.mask) \subseteq MaskSet(prevmask)
            /\ MaskSet(prevmask) \subseteq MaskSet(filtered_data.mask)
            /\ MaskSet(filtered_data.mask) \subseteq fixed
            /\ Cardinality(MaskSet(filtered_data.mask)) <= Cardinality(fixed)

\* C6 witness: a call with an integer iters has returned with a mask
\* strictly between the caller's mask and the fixed point
C6_Witness ==
    /\ pc = "returned" /\ sigclip /\ iters # None
    /\ MaskSet(data.mask) # MaskSet(filtered_data.mask)
    /\ MaskSet(filtered_data.mask) # MaskSet(FixedPoint)

\* C7: clipping the output of a converged call again, with the same
\* thresholds and axis, masks nothing and returns the same values and mask.
C7_Idempotent ==
    (pc \in {"loop", "returned"} /\ again = "converged") =>
        filtered_data = data

\* C7 witness: the second call has returned, on the output of a first
\* call that had masked two elements before it converged
C7_Witness ==
    /\ pc = "returned" /\ again = "converged" /\ i > 0
    /\ Cardinality(MaskSet(data.mask)) >= Cardinality(MaskSet(origmask)) + 2

---------------------------------------------------------------------------
(* Claims on the estimators *)

\* the slice k of array a as an array of its own
Alone(a, ax, k) ==
    [data |-> [j \in Slice(a, ax, k) |-> a.data[j]],
     mask |-> [j \in Slice(a, ax, k) |-> a.mask[j]]]

RECURSIVE ClipLoop(_, _, _, _)
\* the mask the clipping loop leaves on array a along ax from mask m: n
\* iterations, or for n = None iterations until one masks nothing
ClipLoop(a, m, ax, n) ==
    IF n = <<0>> THEN m
    ELSE LET next == perform_clip(a, m, ax, ASTROPY_LT_1P1, sigma,
                                  sigma_lower, sigma_upper)
         IN  IF n = None
             THEN IF next = m THEN m ELSE ClipLoop(a, next, ax, n)
             ELSE ClipLoop(a, next, ax, <<n[1] - 1>>)

\* what the estimator constructed returns for array a with axis = None
CallNoAxis(a) ==
    LET m == IF SkipsClipping(sigclip) THEN a.mask
             ELSE ClipLoop(a, a.mask, None, iters)
    IN  Estimate(cls, median_factor, mean_factor, c, M,
                 [data |-> a.data, mask |-> m], None)

\* C3 as stated: called on a 2-D sample with an integer axis, an
\* estimator returns for each slice along the axis what it returns when
\* called with axis = None on that slice alone.
C3_AxisIsPerSlice ==
    (pc = "done" /\ axis # None) =>
        /\ result # ValueError
        /\ \A k \in Keys(data, axis) :
              <<"value", <<result[2][k]>>>> = CallNoAxis(Alone(data, axis, k))

\* C8 as stated: no object exists whose sigma, sigma_lower or sigma_upper
\* is not positive or whose c is negative.
C8_ConfigIsValid ==
    /\ sigma > 0
    /\ sigma_lower # None => sigma_lower[1] > 0
    /\ sigma_upper # None => sigma_upper[1] > 0
    /\ c # None => c[1] >= 0

\* a result that says "undefined": np.ma.masked, or a biweight statistic
\* of no value at all
Undefined(v) == v = masked \/ (Len(v) = 4 /\ v[4] = {})

\* C9 as stated: when a slice is fully masked, on input or after
\* clipping, the call does not raise, it returns an undefined result for
\* that slice, and for every other slice what the slice alone gives.
\* (What SExtractorBackground returns for a fully masked sample when it
\* does not raise, the 0.0 under the mask, is let pass as its sentinel.)
C9_FullyMaskedSlice ==
    (pc = "done" /\ \E k \in Keys(data, axis) : ClippedU(k) = {}) =>
        /\ result # ValueError
        /\ \A k \in Keys(data, axis) :
              IF ClippedU(k) = {}
              THEN Undefined(result[2][k]) \/ cls = "SExtractorBackground"
              ELSE <<"value", <<result[2][k]>>>> =
                      CallNoAxis(Alone(data, axis, k))

\* the unmasked elements of the sample are at least one and all equal to v
ConstantSample(v) ==
    /\ \E j \in Idx(data) : ~data.mask[j]
    /\ \A j \in Idx(data) : ~data.mask[j] => data.data[j] = v

\* C10 as stated: on a sample whose unmasked elements all have the same
\* value, clipping masks nothing and converges at once, the estimator does
\* not raise, and SExtractorBackground returns that value.
C10_ConstantSample ==
    \A v \in Values :
        (pc = "done" /\ ConstantSample(v)) =>
            /\ filtered_data = data
            /\ sigclip => prevmask = data.mask
            /\ result # ValueError
            /\ cls = "SExtractorBackground" =>
                  \A k \in Keys(data, axis) :
                      NU(k) > 0 => RatEq(result[2][k], <<v, 1>>)

---------------------------------------------------------------------------
(* Claims on the calls *)

\* C11: an estimation call (the named method or the direct call) changes
\* neither the sample the caller supplied, values and mask, also while
\* clipping masks outliers, nor any configuration field of the estimator
\* (sigclip, sigma, sigma_lower, sigma_upper, iters, median_factor,
\* mean_factor, c, M: an M left unset stays unset); and the same call made
\* once more on the same sample returns the same result.
C11_CallHasNoSideEffect ==
    [][/\ config' = config
       /\ pc # "idle" => data' = data
       /\ (again' = "repeat" /\ pc' = "done") => result' = result]_vars

\* a biweight estimator with M unset has returned from its second call on
\* a sample of which the clipping masked an element
C11_Witness ==
    /\ pc = "done" /\ again = "repeat"
    /\ cls = "BiweightLocationBackground" /\ M = None
    /\ sigclip /\ i > 0
    /\ filtered_data.mask # data.mask
    /\ data.mask = origmask
    /\ result # ValueError

\* what the named method of the estimator constructed returns for array
\* a and axis ax
MethodOutcome(a, ax) ==
    LET m == IF SkipsClipping(sigclip) THEN a.mask
             ELSE ClipLoop(a, a.mask, ax, iters)
    IN  Estimate(cls, median_factor, mean_factor, c, M,
                 [data |-> a.data, mask |-> m], ax)

\* C12: calling an estimator object directly, e(sample, axis), gives the
\* outcome of its named method with the same arguments,
\* calc_background(sample, axis) or calc_background_rms(sample, axis): the
\* same value or the same failure.
C12_DirectCallIsMethod ==
    (pc = "done" /\ method = "__call__") =>
        result = MethodOutcome(data, outer[1])

\* a direct call with an axis has returned values that differ between the
\* slices, after clipping masked an element
C12_Witness ==
    /\ pc = "done" /\ method = "__call__"
    /\ outer = <<<<0>>>>
    /\ sigclip /\ filtered_data.mask # data.mask
    /\ result # ValueError
    /\ \E k1, k2 \in Keys(data, axis) : result[2][k1] # result[2][k2]
    /\ result # MethodOutcome(data, None)

\* C13: on the sample 0, 1, ..., 99, with sigma = 3 and the default
\* iters, the clipping masks no element, and MeanBackground,
\* MedianBackground, MMMBackground (3 * median - 2 * mean) and
\* SExtractorBackground each return 49.5.
C13_RangeSample ==
    (pc = "done" /\ data = Range(RangeLen) /\ axis = None) =>
        /\ filtered_data.mask = data.mask
        /\ cls \in {"MeanBackground", "MedianBackground", "MMMBackground",
                    "SExtractorBackground"} =>
              /\ result # ValueError
              /\ RatEq(result[2][1], <<RangeLen - 1, 2>>)

\* SExtractorBackground has returned 49.5 for the sample after the five
\* iterations of the clipping
C13_Witness ==
    /\ pc = "done" /\ data = Range(RangeLen) /\ axis = None
    /\ cls = "SExtractorBackground"
    /\ sigclip /\ i = DefaultIters
    /\ sigma = DefaultSigma
    /\ RatEq(result[2][1], <<RangeLen - 1, 2>>)

====
